---- MODULE Spec2Model ----
(***************************************************************************)
(* The mint dialog of POAP-APP: the zod validation schema of the mint      *)
(* form, the react-hook-form wiring (validation on every change, reset),   *)
(* the async submit handler onSubmit and the handlers that close the       *)
(* dialog through the shared activeDialog atom.                            *)
(***************************************************************************)
EXTENDS Integers, Sequences, FiniteSets, TLC

(***************************************************************************)
(* Strings.  A string is a sequence of runs [c, n]: the character c        *)
(* repeated n >= 1 times.  "  ab" is <<[c |-> " ", n |-> 2],               *)
(* [c |-> "a", n |-> 1], [c |-> "b", n |-> 1]>>.  The encoding keeps a     *)
(* string of 10001 characters a small value.                               *)
(***************************************************************************)
Run(c, n) == [c |-> c, n |-> n]

EmptyString == << >>

Rep(c, n) == IF n = 0 THEN EmptyString ELSE <<Run(c, n)>>

RECURSIVE StrLen(_)
StrLen(s) == IF s = << >> THEN 0 ELSE Head(s).n + StrLen(Tail(s))

IsSpace(c) == c = " "

IsLetter(c) == c \in {"a", "h"}

RECURSIVE TrimStart(_)
TrimStart(s) ==
    IF s = << >> THEN s
    ELSE IF IsSpace(Head(s).c) THEN TrimStart(Tail(s))
    ELSE s

RECURSIVE TrimEnd(_)
TrimEnd(s) ==
    IF s = << >> THEN s
    ELSE IF IsSpace(s[Len(s)].c) THEN TrimEnd(SubSeq(s, 1, Len(s) - 1))
    ELSE s

\* String.prototype.trim
Trim(s) == TrimEnd(TrimStart(s))

\* new URL(s) without a base: leading and trailing spaces are stripped, then
\* the input must start with a scheme (a letter, then letters) followed by ":".
RECURSIVE HasScheme(_, _)
HasScheme(s, seen) ==
    IF s = << >> THEN FALSE
    ELSE IF Head(s).c = ":" THEN seen
    ELSE IF IsLetter(Head(s).c) THEN HasScheme(Tail(s), TRUE)
    ELSE FALSE

IsUrl(s) == HasScheme(Trim(s), FALSE)

(***************************************************************************)
(* Values of the other field types.                                        *)
(***************************************************************************)
Undefined == [kind |-> "undefined"]
Null == [kind |-> "null"]
NaN == [kind |-> "nan"]

\* A number is kept as twice its value, so that n + 1/2 is a value too.
Num(n) == [kind |-> "number", twice |-> 2 * n]
NumAndHalf(n) == [kind |-> "number", twice |-> 2 * n + 1]

\* A Date is the number of days since 1900-01-01; InvalidDate is new Date(NaN).
Date(t) == [kind |-> "date", t |-> t]
InvalidDate == [kind |-> "invalidDate"]

(***************************************************************************)
(* zod.  Parsing a value gives a status ("valid", "dirty": issues were     *)
(* added, "aborted": the type is wrong), the issues, and the output value. *)
(***************************************************************************)
Issue(path, message) == [path |-> path, message |-> message]

Parsed(status, issues, value) == [status |-> status, issues |-> issues, value |-> value]

TitleMax == 256
DescriptionMax == 10000
LocationMax == 256
TokenCountMax == 200
\* new Date("1900-01-01"), in days since 1900-01-01
MinDate == 0

\* A ZodString runs its checks in the order they were chained; "trim" is one
\* of the checks and rewrites the data for the checks after it.
RECURSIVE RunStringChecks(_, _, _, _)
RunStringChecks(checks, path, data, issues) ==
    IF checks = << >> THEN Parsed(IF issues = {} THEN "valid" ELSE "dirty", issues, data)
    ELSE LET check == Head(checks)
             rest == Tail(checks)
         IN CASE check.kind = "min" ->
                   RunStringChecks(rest, path, data,
                       IF StrLen(data) < check.value
                       THEN issues \cup {Issue(path, check.message)} ELSE issues)
              [] check.kind = "max" ->
                   RunStringChecks(rest, path, data,
                       IF StrLen(data) > check.value
                       THEN issues \cup {Issue(path, check.message)} ELSE issues)
              [] check.kind = "url" ->
                   RunStringChecks(rest, path, data,
                       IF ~IsUrl(data)
                       THEN issues \cup {Issue(path, check.message)} ELSE issues)
              [] check.kind = "trim" ->
                   RunStringChecks(rest, path, Trim(data), issues)

Min(value, message) == [kind |-> "min", value |-> value, message |-> message]
Max(value, message) == [kind |-> "max", value |-> value, message |-> message]
Url(message) == [kind |-> "url", message |-> message]
TrimCheck == [kind |-> "trim"]

\* string().nonempty(..).max(256, ..).trim()
titleChecks ==
    <<Min(1, "Title is required"),
      Max(TitleMax, "Title must be less than 256 characters"),
      TrimCheck>>

\* string().nonempty(..).max(10000, ..)
descriptionChecks ==
    <<Min(1, "Description is required"),
      Max(DescriptionMax, "Description must be less than 10000 characters")>>

\* string().nonempty(..).max(256, ..)
locationChecks ==
    <<Min(1, "Location is required"),
      Max(LocationMax, "Location must be less than 256 characters")>>

\* string().nonempty(..).url(..).trim()
urlChecks == <<Min(1, "URL is required"), Url("URL is invalid"), TrimCheck>>

\* number().int().positive().max(200, ..)
ParseTokenCount(input) ==
    IF input.kind # "number"
    THEN Parsed("aborted", {Issue("tokenCount", "Expected number")}, input)
    ELSE LET issues ==
                 (IF input.twice % 2 # 0
                  THEN {Issue("tokenCount", "Expected integer")} ELSE {})
                 \cup (IF input.twice <= 0
                       THEN {Issue("tokenCount", "Number must be greater than 0")} ELSE {})
                 \cup (IF input.twice > 2 * TokenCountMax
                       THEN {Issue("tokenCount", "Token count must be less than or equal to 200")}
                       ELSE {})
         IN Parsed(IF issues = {} THEN "valid" ELSE "dirty", issues, input)

\* boolean()
ParseBoolean(path, input) ==
    IF input \in BOOLEAN THEN Parsed("valid", {}, input)
    ELSE Parsed("aborted", {Issue(path, "Expected boolean")}, input)

\* The status of an object is the worst status of its fields.
ObjectStatus(statuses) ==
    IF "aborted" \in statuses THEN "aborted"
    ELSE IF "dirty" \in statuses THEN "dirty"
    ELSE "valid"

ParseCommon(v) ==
    LET title == RunStringChecks(titleChecks, "title", v.title, {})
        description == RunStringChecks(descriptionChecks, "description", v.description, {})
        location == RunStringChecks(locationChecks, "location", v.location, {})
        url == RunStringChecks(urlChecks, "url", v.url, {})
        tokenCount == ParseTokenCount(v.tokenCount)
        isPublic == ParseBoolean("isPublic", v.isPublic)
    IN Parsed(ObjectStatus({title.status, description.status, location.status,
                            url.status, tokenCount.status, isPublic.status}),
              title.issues \cup description.issues \cup location.issues
                  \cup url.issues \cup tokenCount.issues \cup isPublic.issues,
              [title |-> title.value, description |-> description.value,
               location |-> location.value, url |-> url.value,
               tokenCount |-> tokenCount.value, isPublic |-> isPublic.value])

\* date().min(new Date("1900-01-01"), ..).nullable().transform(..): the
\* transform runs only on a valid inner result, and adds the "required" issue
\* for null.
ParseDateField(path, input, required) ==
    IF input.kind = "null" THEN Parsed("dirty", {Issue(path, required)}, input)
    ELSE IF input.kind # "date" THEN Parsed("aborted", {Issue(path, "Invalid date")}, input)
    ELSE IF input.t < MinDate THEN Parsed("dirty", {Issue(path, "Date is too far back")}, input)
    ELSE Parsed("valid", {}, input)

\* The refinement of schemaDates: true when both dates are set and ordered.
DatesRefinement(data) ==
    IF data.dateEnd.kind # "null" /\ data.dateStart.kind # "null"
    THEN data.dateEnd.t >= data.dateStart.t
    ELSE FALSE

\* object({dateStart, dateEnd}).refine(.., {path: ["dateEnd"], ..}): the
\* refinement is skipped when the object is aborted.
ParseDates(v) ==
    LET dateStart == ParseDateField("dateStart", v.dateStart, "Start Date is required")
        dateEnd == ParseDateField("dateEnd", v.dateEnd, "End Date is required")
        status == ObjectStatus({dateStart.status, dateEnd.status})
        data == [dateStart |-> dateStart.value, dateEnd |-> dateEnd.value]
        issues == dateStart.issues \cup dateEnd.issues
    IN IF status = "aborted" THEN Parsed("aborted", issues, data)
       ELSE IF DatesRefinement(data) THEN Parsed(status, issues, data)
       ELSE Parsed("dirty",
                   issues \cup {Issue("dateEnd", "End Date must be later than Start Date")},
                   data)

\* intersection(schemaCommon, schemaDates): both sides parse the whole input,
\* the outputs are merged.
ParseSchema(v) ==
    LET left == ParseCommon(v)
        right == ParseDates(v)
    IN Parsed(ObjectStatus({left.status, right.status}),
              left.issues \cup right.issues,
              [title |-> left.value.title, description |-> left.value.description,
               location |-> left.value.location, url |-> left.value.url,
               tokenCount |-> left.value.tokenCount, isPublic |-> left.value.isPublic,
               dateStart |-> right.value.dateStart, dateEnd |-> right.value.dateEnd])

\* zodResolver(schema): the record validates when parsing adds no issue.
SchemaAccepts(v) == ParseSchema(v).issues = {}

\* The field errors react-hook-form shows: the paths that have an issue.
ErrorPaths(v) == {i.path : i \in ParseSchema(v).issues}

defaultValues ==
    [title |-> EmptyString, description |-> EmptyString, location |-> EmptyString,
     url |-> EmptyString, dateStart |-> Null, dateEnd |-> Null,
     tokenCount |-> Undefined, isPublic |-> FALSE]

(***************************************************************************)
(* The mint dialog.                                                        *)
(***************************************************************************)
VARIABLES
    values,          \* the form values react-hook-form holds
    isValid,         \* formState.isValid
    loading,         \* React state "loading"
    open,            \* React state "open"
    activeDialog,    \* the shared activeDialogAtom: the type of the active dialog
    account,         \* useWeb3().account
    networkId,       \* useWeb3().networkId
    isAuthenticated, \* useAuth().isAuthenticated
    jwt,             \* useAuth().jwt
    calls,           \* the runs of onSubmit that wait for API.event.create
    lastEvent        \* the latest event: its name, and for a handler the side
                     \* effects it had, in order, and the notifications it enqueued

vars == <<values, isValid, loading, open, activeDialog, account, networkId,
          isAuthenticated, jwt, calls, lastEvent>>

\* An absent (undefined) account, network identifier or token.
Absent == "undefined"
Truthy(x) == x # Absent

NoDialog == "none"
DIALOG_MINT == "DIALOG_MINT"
DIALOG_OTHER == "DIALOG_OTHER"

Accounts == {Absent, "0xA11CE"}
NetworkIds == {Absent, "5"}
Tokens == {Absent, "jwt"}
EventIds == {"42"}

\* The most calls the model lets wait at a time.
MaxCalls == 2

\* The values a user gives each field of the dialog.
FieldInputs ==
    [title |-> {EmptyString, <<Run(" ", 1), Run("a", 1)>>},
     description |-> {EmptyString, Rep("a", 1)},
     location |-> {EmptyString, Rep("a", 1)},
     url |-> {EmptyString, <<Run("h", 1), Run(":", 1), Run("a", 1)>>},
     dateStart |-> {Null, Date(1)},
     dateEnd |-> {Null, Date(0), Date(1)},
     tokenCount |-> {NaN, Num(1)},
     isPublic |-> BOOLEAN]

FieldNames == DOMAIN FieldInputs

\* The ways API.event.create fails: an axios error with a response that
\* carries {error}, with a response whose data has no error field, with a
\* response whose data is null, an axios error with no response, and an
\* error that is not an axios error.
Failure(isAxiosError, response, error, message) ==
    [isAxiosError |-> isAxiosError, response |-> response, error |-> error,
     message |-> message]

Failures ==
    {Failure(TRUE, "data", "limit exceeded", "Request failed with status code 400"),
     Failure(TRUE, "data", Absent, "Request failed with status code 502"),
     Failure(TRUE, "null", Absent, "Request failed with status code 500"),
     Failure(TRUE, Absent, Absent, "Network Error"),
     Failure(FALSE, Absent, Absent, "apis is misconfigured")}

Notification(variant, text, arg) == [variant |-> variant, text |-> text, arg |-> arg]

Init ==
    /\ values = defaultValues
    /\ isValid = FALSE
    /\ loading = FALSE
    /\ open = FALSE
    /\ activeDialog = NoDialog
    /\ account = Absent
    /\ networkId = Absent
    /\ isAuthenticated = FALSE
    /\ jwt = Absent
    /\ calls = << >>
    /\ lastEvent = [name |-> "none"]

\* useEffect on activeDialog: open mirrors whether the atom names this dialog.
OpenFor(dialog) == dialog = DIALOG_MINT

\* setActiveDialog(value), with the effect that follows it
SetActiveDialog(value) ==
    /\ activeDialog' = value
    /\ open' = OpenFor(value)

\* reset(): the form goes back to defaultValues
Reset ==
    /\ values' = defaultValues
    /\ isValid' = SchemaAccepts(defaultValues)

\* Mutants of SubmitDisabled: the button forgets loading, or isAuthenticated.
SubmitDisabledIgnoringLoading == ~Truthy(account) \/ ~isValid \/ ~isAuthenticated

SubmitDisabledIgnoringAuth == loading \/ ~Truthy(account) \/ ~isValid

\* The disabled prop of the Create button.
SubmitDisabled == loading \/ ~Truthy(account) \/ ~isValid \/ ~isAuthenticated

\* The body of the create-event request.
RequestBody(v) ==
    [networkId |-> networkId, tokenCount |-> v.tokenCount, title |-> v.title,
     description |-> v.description, location |-> v.location, imageUrl |-> v.url,
     dateStart |-> v.dateStart, dateEnd |-> v.dateEnd, isManaged |-> ~v.isPublic]

RemoveAt(seq, i) == SubSeq(seq, 1, i - 1) \o SubSeq(seq, i + 1, Len(seq))

(***************************************************************************)
(* The collaborators of the dialog.                                        *)
(***************************************************************************)
\* The wallet connector changes the account or the network.
Web3Update(a, n) ==
    /\ <<a, n>> # <<account, networkId>>
    /\ account' = a
    /\ networkId' = n
    /\ lastEvent' = [name |-> "environment"]
    /\ UNCHANGED <<values, isValid, loading, open, activeDialog, isAuthenticated,
                   jwt, calls>>

\* The authentication provider signs the user in or out.
AuthUpdate(authenticated, token) ==
    /\ <<authenticated, token>> # <<isAuthenticated, jwt>>
    /\ isAuthenticated' = authenticated
    /\ jwt' = token
    /\ lastEvent' = [name |-> "environment"]
    /\ UNCHANGED <<values, isValid, loading, open, activeDialog, account,
                   networkId, calls>>

\* Another component writes the atom: a launcher names a dialog, or the other
\* dialog closes itself.
AtomWrite(dialog) ==
    /\ dialog # activeDialog
    /\ dialog = NoDialog => activeDialog = DIALOG_OTHER
    /\ SetActiveDialog(dialog)
    /\ lastEvent' = [name |-> "activeDialogAtom", previous |-> lastEvent.name]
    /\ UNCHANGED <<values, isValid, loading, account, networkId, isAuthenticated,
                   jwt, calls>>

(***************************************************************************)
(* The handlers of the dialog.                                             *)
(***************************************************************************)
\* A field changes (mode "all": the resolver runs on every change).  Every
\* field is disabled while loading.
onChange(field, value) ==
    /\ open
    /\ ~loading
    /\ values' = [values EXCEPT ![field] = value]
    /\ isValid' = SchemaAccepts(values')
    /\ lastEvent' = [name |-> "onChange"]
    /\ UNCHANGED <<loading, open, activeDialog, account, networkId,
                   isAuthenticated, jwt, calls>>

\* Mutant of handleClose: the reason is not looked at.
handleCloseAnyReason(reason) ==
    /\ open
    /\ reason = Absent => ~loading
    /\ SetActiveDialog(NoDialog)
    /\ lastEvent' = [name |-> "handleClose", reason |-> reason]
    /\ UNCHANGED <<values, isValid, loading, account, networkId, isAuthenticated,
                   jwt, calls>>

\* handleClose(event, reason): Dialog's onClose (escape is disabled, so the
\* reason is "backdropClick") and the close icon (no reason; disabled while
\* loading).
handleClose(reason) ==
    /\ open
    /\ reason = Absent => ~loading
    /\ IF reason = "backdropClick"
       THEN UNCHANGED <<activeDialog, open>>
       ELSE SetActiveDialog(NoDialog)
    /\ lastEvent' = [name |-> "handleClose", reason |-> reason]
    /\ UNCHANGED <<values, isValid, loading, account, networkId, isAuthenticated,
                   jwt, calls>>

\* Mutant of handleCancel: the form is not reset.
handleCancelWithoutReset ==
    /\ open
    /\ ~loading
    /\ SetActiveDialog(NoDialog)
    /\ lastEvent' = [name |-> "handleCancel", populated |-> values # defaultValues]
    /\ UNCHANGED <<values, isValid, loading, account, networkId, isAuthenticated,
                   jwt, calls>>

\* handleCancel: the Cancel button (disabled while loading).
handleCancel ==
    /\ open
    /\ ~loading
    /\ Reset
    /\ SetActiveDialog(NoDialog)
    /\ lastEvent' = [name |-> "handleCancel", populated |-> values # defaultValues]
    /\ UNCHANGED <<loading, account, networkId, isAuthenticated, jwt, calls>>

\* What a click on Create found: whether the button was disabled, and
\* whether every precondition of a submission held.
Click(effects) ==
    [name |-> "clickCreate", disabled |-> SubmitDisabled,
     ready |-> SchemaAccepts(values) /\ Truthy(account) /\ isAuthenticated
               /\ Truthy(networkId) /\ Truthy(jwt),
     effects |-> effects, notifications |-> << >>]

\* onSubmit(values) up to its await: with account, networkId and jwt the
\* request is sent; without one of them the try block does nothing and the
\* finally block runs at once.
onSubmit(v) ==
    IF Truthy(account) /\ Truthy(networkId) /\ Truthy(jwt)
    THEN /\ Len(calls) < MaxCalls
         /\ loading' = TRUE
         /\ calls' = Append(calls, [jwt |-> jwt, body |-> RequestBody(v),
                                    effects |-> <<"setLoading(true)", "API.event.create">>])
         /\ lastEvent' = Click(<<"setLoading(true)", "API.event.create">>)
         /\ UNCHANGED <<values, isValid, open, activeDialog>>
    ELSE /\ loading' = FALSE
         /\ SetActiveDialog(NoDialog)
         /\ lastEvent' = Click(<<"setLoading(true)", "setLoading(false)",
                                 "setActiveDialog({})">>)
         /\ UNCHANGED <<values, isValid, calls>>

\* handleSubmit(onSubmit): the resolver runs, and onSubmit gets the parsed
\* values when the record validates.  The resolver is promise-based, so the
\* click, the validation and onSubmit up to its await run within one task of
\* the event loop: no other event is handled in between.
handleSubmit ==
    LET result == ParseSchema(values)
    IN IF result.issues = {}
       THEN onSubmit(result.value)
       ELSE /\ lastEvent' = Click(<< >>)
            /\ UNCHANGED <<values, isValid, loading, open, activeDialog, calls>>

\* A click on the Create button; a disabled button runs no handler.
clickCreate ==
    /\ open
    /\ IF SubmitDisabled
       THEN /\ lastEvent' = Click(<< >>)
            /\ UNCHANGED <<values, isValid, loading, open, activeDialog, calls>>
       ELSE handleSubmit
    /\ UNCHANGED <<account, networkId, isAuthenticated, jwt>>

\* Mutant of onSubmitResolved: reset() is left out.
onSubmitResolvedWithoutReset(i, eventId) ==
    /\ i \in 1..Len(calls)
    /\ calls' = RemoveAt(calls, i)
    /\ loading' = FALSE
    /\ SetActiveDialog(NoDialog)
    /\ lastEvent' =
           [name |-> "resolved", eventId |-> eventId, body |-> calls[i].body,
            effects |-> calls[i].effects
                        \o <<"enqueueSnackbar", "setLoading(false)",
                             "setActiveDialog({})">>,
            notifications |->
                <<Notification("success", "Mint successful: Event #", eventId)>>]
    /\ UNCHANGED <<values, isValid, account, networkId, isAuthenticated, jwt>>

\* onSubmit after the await, the call having returned result: the success
\* notification, reset(), then the finally block.
onSubmitResolved(i, eventId) ==
    /\ i \in 1..Len(calls)
    /\ calls' = RemoveAt(calls, i)
    /\ Reset
    /\ loading' = FALSE
    /\ SetActiveDialog(NoDialog)
    /\ lastEvent' =
           [name |-> "resolved", eventId |-> eventId,
            body |-> calls[i].body,
            effects |-> calls[i].effects
                        \o <<"enqueueSnackbar", "reset", "setLoading(false)",
                             "setActiveDialog({})">>,
            notifications |->
                <<Notification("success", "Mint successful: Event #", eventId)>>]
    /\ UNCHANGED <<account, networkId, isAuthenticated, jwt>>

\* `Mint failed: ${err.response?.data.error}`: reading .error of a null data
\* throws; an absent response or an absent field reads as undefined.
ResponseErrorThrows(err) == err.response = "null"

ResponseError(err) == IF err.response = Absent THEN Absent ELSE err.error

\* The catch block: the notifications it enqueues.
Caught(err) ==
    IF err.isAxiosError
    THEN IF ResponseErrorThrows(err) THEN << >>
         ELSE <<Notification("error", "Mint failed: ", ResponseError(err))>>
    ELSE <<Notification("error", "Mint failed: ", err.message)>>

\* Mutant of onSubmitRejected: the form is reset on a failure too.
onSubmitRejectedWithReset(i, err) ==
    /\ i \in 1..Len(calls)
    /\ calls' = RemoveAt(calls, i)
    /\ Reset
    /\ loading' = FALSE
    /\ SetActiveDialog(NoDialog)
    /\ lastEvent' =
           [name |-> "rejected", error |-> err, body |-> calls[i].body,
            effects |-> calls[i].effects
                        \o [k \in 1..Len(Caught(err)) |-> "enqueueSnackbar"]
                        \o <<"reset", "setLoading(false)", "setActiveDialog({})">>,
            notifications |-> Caught(err)]
    /\ UNCHANGED <<account, networkId, isAuthenticated, jwt>>

\* onSubmit after the await, the call having thrown err: the catch block,
\* then the finally block.
onSubmitRejected(i, err) ==
    /\ i \in 1..Len(calls)
    /\ calls' = RemoveAt(calls, i)
    /\ loading' = FALSE
    /\ SetActiveDialog(NoDialog)
    /\ lastEvent' =
           [name |-> "rejected", error |-> err,
            body |-> calls[i].body,
            effects |-> calls[i].effects
                        \o [k \in 1..Len(Caught(err)) |-> "enqueueSnackbar"]
                        \o <<"setLoading(false)", "setActiveDialog({})">>,
            notifications |-> Caught(err)]
    /\ UNCHANGED <<values, isValid, account, networkId, isAuthenticated, jwt>>

Next ==
    \/ \E a \in Accounts, n \in NetworkIds : Web3Update(a, n)
    \/ \E authenticated \in BOOLEAN, token \in Tokens : AuthUpdate(authenticated, token)
    \/ \E dialog \in {NoDialog, DIALOG_MINT, DIALOG_OTHER} : AtomWrite(dialog)
    \/ \E field \in FieldNames : \E value \in FieldInputs[field] : onChange(field, value)
    \/ \E reason \in {"backdropClick", Absent} : handleClose(reason)
    \/ handleCancel
    \/ clickCreate
    \/ \E i \in 1..MaxCalls, eventId \in EventIds : onSubmitResolved(i, eventId)
    \/ \E i \in 1..MaxCalls, err \in Failures : onSubmitRejected(i, err)

Spec == Init /\ [][Next]_vars

(***************************************************************************)
(* The schema alone: the dialog is opened and the fields take candidate    *)
(* values around every limit of the schema.                                *)
(***************************************************************************)
SchemaInputs ==
    [title |-> {EmptyString, Rep(" ", 2), Rep("a", TitleMax), Rep("a", TitleMax + 1),
                <<Run(" ", 1), Run("a", TitleMax)>>},
     description |-> {EmptyString, Rep("a", DescriptionMax), Rep("a", DescriptionMax + 1)},
     location |-> {EmptyString, Rep(" ", 2), Rep("a", LocationMax), Rep("a", LocationMax + 1)},
     url |-> {EmptyString, Rep(" ", 2), Rep("a", 1),
              <<Run(" ", 1), Run("h", 1), Run(":", 1), Run("a", 1), Run(" ", 1)>>},
     dateStart |-> {Null, Date(MinDate - 1), Date(MinDate), Date(MinDate + 1)},
     dateEnd |-> {Null, InvalidDate, Date(MinDate - 1), Date(MinDate), Date(MinDate + 1)},
     tokenCount |-> {NaN, Num(0), Num(1), NumAndHalf(1), Num(TokenCountMax),
                     Num(TokenCountMax + 1)},
     isPublic |-> BOOLEAN]

NextSchema ==
    \/ AtomWrite(DIALOG_MINT)
    \/ \E field \in FieldNames : \E value \in SchemaInputs[field] : onChange(field, value)

SpecSchema == Init /\ [][NextSchema]_vars

(***************************************************************************)
(* The claims.                                                             *)
(***************************************************************************)
\* C1: the Create button is enabled if and only if the record validates, an
\* account is present, the user is authenticated and no submission is in
\* flight; so each of the four, failing alone, disables the button.
C1_SubmitEnabledIffAllFour ==
    ~SubmitDisabled <=>
        (SchemaAccepts(values) /\ Truthy(account) /\ isAuthenticated /\ ~loading)

\* The button is enabled in an open dialog.
C1_Witness == open /\ ~SubmitDisabled /\ SchemaAccepts(values)

\* C2: a submit action taken without a precondition of a submission (a valid
\* record, an account, authentication, a network identifier, a token) issues
\* no call, emits no notification and leaves loading, the form values and the
\* active-dialog signal unchanged.
C2_SubmitWithoutPreconditionIsNoOp ==
    [][(lastEvent'.name = "clickCreate" /\ ~lastEvent'.ready)
        => /\ UNCHANGED <<loading, values, activeDialog, open, calls>>
           /\ lastEvent'.notifications = << >>]_vars

\* C3: at most one create-event call is in flight at any time.
C3_AtMostOneCallInFlight == Len(calls) <= 1

\* A click on Create arrived while a call was in flight, and issued nothing.
C3_Witness ==
    /\ Len(calls) = 1
    /\ loading
    /\ lastEvent.name = "clickCreate"
    /\ lastEvent.disabled
    /\ SchemaAccepts(values) /\ Truthy(account) /\ isAuthenticated

\* C4: when a call that returned an event identifier settles, exactly one
\* notification was emitted, a success naming the identifier, every field has
\* its default value, loading is false and the dialog is closed.
C4_SuccessNotifiesResetsCloses ==
    lastEvent.name = "resolved" =>
        /\ Len(lastEvent.notifications) = 1
        /\ lastEvent.notifications[1].variant = "success"
        /\ lastEvent.notifications[1].arg = lastEvent.eventId
        /\ values.title = EmptyString
        /\ values.description = EmptyString
        /\ values.location = EmptyString
        /\ values.url = EmptyString
        /\ values.dateStart = Null
        /\ values.dateEnd = Null
        /\ values.tokenCount = Undefined
        /\ values.isPublic = FALSE
        /\ ~loading
        /\ activeDialog = NoDialog
        /\ ~open

\* A call for a populated form has returned event 42.
C4_Witness ==
    /\ lastEvent.name = "resolved"
    /\ lastEvent.eventId = "42"
    /\ lastEvent.body.title # EmptyString
    /\ calls = << >>

\* The request body that a form holding v sends, the network aside.
BodyOf(v) == [RequestBody(ParseSchema(v).value) EXCEPT !.networkId = Absent]

\* C5: when a call that failed settles, the form still holds the values that
\* were submitted, loading is false and the dialog is closed; and opening a
\* dialog afterwards leaves the values in place.
C5_FailureKeepsFormAndCloses ==
    [][/\ lastEvent'.name = "rejected"
          => /\ values' = values
             /\ BodyOf(values') = [lastEvent'.body EXCEPT !.networkId = Absent]
             /\ ~loading'
             /\ activeDialog' = NoDialog
             /\ ~open'
       /\ lastEvent'.name = "activeDialogAtom" => values' = values]_vars

\* The dialog was opened again after a failure, and holds a valid record.
C5_Witness ==
    /\ lastEvent.name = "activeDialogAtom"
    /\ lastEvent.previous = "rejected"
    /\ open
    /\ SchemaAccepts(values)

\* C6: a failed call emits exactly one error notification; its message is the
\* error field of the server's payload when there is one, the error's own
\* message when no response came, and never an absent value.
C6_ErrorMessageByKindOfFailure ==
    lastEvent.name = "rejected" =>
        /\ Len(lastEvent.notifications) = 1
        /\ lastEvent.notifications[1].variant = "error"
        /\ (lastEvent.error.response = "data" /\ lastEvent.error.error # Absent)
               => lastEvent.notifications[1].arg = lastEvent.error.error
        /\ lastEvent.error.response = Absent
               => lastEvent.notifications[1].arg = lastEvent.error.message
        /\ lastEvent.notifications[1].arg # Absent

\* C7: every run of onSubmit has its side effects in the order set loading,
\* call, notify, reset on success, clear loading, close, none skipped; loading
\* is true while the call is in flight.
C7_SideEffectsInOrder ==
    /\ \A i \in 1..Len(calls) :
           loading /\ calls[i].effects = <<"setLoading(true)", "API.event.create">>
    /\ (lastEvent.name = "clickCreate" /\ lastEvent.effects # << >>)
           => lastEvent.effects = <<"setLoading(true)", "API.event.create">>
    /\ lastEvent.name = "resolved"
           => lastEvent.effects = <<"setLoading(true)", "API.event.create",
                                    "enqueueSnackbar", "reset", "setLoading(false)",
                                    "setActiveDialog({})">>
    /\ lastEvent.name = "rejected"
           => lastEvent.effects = <<"setLoading(true)", "API.event.create",
                                    "enqueueSnackbar", "setLoading(false)",
                                    "setActiveDialog({})">>

\* C8: handleClose with reason "backdropClick" changes nothing; with another
\* reason or none it sets the active-dialog signal to none and leaves the form
\* values alone.
C8_BackdropIgnoredOtherwiseClose ==
    [][lastEvent'.name = "handleClose"
        => IF lastEvent'.reason = "backdropClick"
           THEN UNCHANGED <<values, isValid, loading, open, activeDialog, account,
                            networkId, isAuthenticated, jwt, calls>>
           ELSE activeDialog' = NoDialog /\ values' = values /\ isValid' = isValid]_vars

\* The backdrop of an open, populated dialog was clicked.
C8_Witness ==
    /\ lastEvent.name = "handleClose"
    /\ lastEvent.reason = "backdropClick"
    /\ open
    /\ values # defaultValues

\* C9: cancel resets every field to its default and sets the active-dialog
\* signal to none, so that open is false; the dialog opened again shows the
\* default form.
C9_CancelResetsAndCloses ==
    /\ lastEvent.name = "handleCancel"
           => values = defaultValues /\ activeDialog = NoDialog /\ ~open
    /\ (lastEvent.name = "activeDialogAtom" /\ lastEvent.previous = "handleCancel")
           => values = defaultValues
    /\ open <=> activeDialog = DIALOG_MINT

\* Cancel was clicked on a populated form.
C9_Witness ==
    /\ lastEvent.name = "handleCancel"
    /\ lastEvent.populated
    /\ ~open

\* The record that C10 describes: title, location and url trimmed before
\* they are checked.
C10_Described(v) ==
    /\ StrLen(Trim(v.title)) >= 1 /\ StrLen(Trim(v.title)) <= TitleMax
    /\ StrLen(Trim(v.location)) >= 1 /\ StrLen(Trim(v.location)) <= LocationMax
    /\ StrLen(Trim(v.url)) >= 1 /\ IsUrl(Trim(v.url))
    /\ StrLen(v.description) >= 1 /\ StrLen(v.description) <= DescriptionMax
    /\ v.tokenCount.kind = "number"
    /\ v.tokenCount.twice % 2 = 0
    /\ v.tokenCount.twice >= 2 /\ v.tokenCount.twice <= 2 * TokenCountMax
    /\ v.dateStart.kind = "date" /\ v.dateStart.t >= MinDate
    /\ v.dateEnd.kind = "date" /\ v.dateEnd.t >= MinDate
    /\ v.dateEnd.t >= v.dateStart.t

\* C10: the schema accepts a record if and only if it is the record described
\* (strings trimmed, then non-empty and within their limits; tokenCount an
\* integer in 1..200; both dates present and from 1900-01-01 on; dateEnd not
\* before dateStart), and a dateEnd before dateStart is an error of dateEnd.
C10_SchemaAcceptsIffDescribed ==
    /\ isValid <=> C10_Described(values)
    /\ SchemaAccepts(values) <=> C10_Described(values)
    /\ (/\ values.dateStart.kind = "date" /\ values.dateEnd.kind = "date"
        /\ values.dateEnd.t < values.dateStart.t)
           => "dateEnd" \in ErrorPaths(values)

====
